---------------------------- MODULE Spec2Model ----------------------------
(***************************************************************************)
(* Real-time collaborative drawing canvas: the room-scoped shared drawing  *)
(* history (server/drawing-state.js), the room directory                   *)
(* (server/rooms.js), the Socket.IO session handlers (server/server.js)    *)
(* and the client's optimistic canvas history (client/canvas.js,           *)
(* client/main.js).                                                         *)
(*                                                                         *)
(* A stroke is one finished gesture.  Every gesture builds a new stroke    *)
(* object (canvas.js startDrawing), so a stroke is modelled by the number  *)
(* of the command that made it.                                            *)
(***************************************************************************)
EXTENDS Integers, Sequences, FiniteSets, TLC

\* ------------------------------------------------------------------------
\* Bounds of the model
\* ------------------------------------------------------------------------

\* Number of addStroke calls made on the stand-alone history engine.
MaxEngineStrokes == 4

\* Number of commands (a stroke drawn, an undo, a redo, a clear) given by all
\* clients together.
MaxCommands == 3

\* Number of further commands the clients give when a late joiner is followed.
ExtraCommands == 1

\* Number of strokes drawn when the server is exercised with mouse movements.
PointerStrokes == 1

\* The connections (socket ids), the room names and the user names.
Conns == {"c1", "c2"}

RoomNames == {"r1", "r2"}

Usernames == {"ann"}

\* The positions a mouse reports, other than the origin a user starts at.
CursorPoints == { [x |-> 1, y |-> 2] }

\* ------------------------------------------------------------------------
\* State
\* ------------------------------------------------------------------------

VARIABLES
  engine,      \* a DrawingState instance exercised on its own
  lastCall,    \* the last call made on engine: operation, argument, result, state before
  truncated,   \* strokes that addStroke found beyond historyIndex when it was called
  cleared,     \* strokes that were stored when clear was called
  engineNext,  \* number of the next stroke handed to engine
  rooms,       \* roomManager.rooms: room name -> {name, users, drawingState}
  currentRoom, \* per connection: the handler closure's currentRoom
  sioRooms,    \* per connection: the Socket.IO rooms the socket has joined
  inbox,       \* per connection: events sent by the client, not yet handled by the server
  outbox,      \* per connection: events emitted by the server, not yet handled by the client
  client,      \* per connection: the page's DrawingApp (phase, canvasManager)
  commands,    \* number of commands given so far by all clients: strokes drawn,
               \* undo, redo and clear
  handled,     \* the server on its own: the connection and the event last handled
  late,        \* the late joiner followed: who joined a room that had a redo-pending
               \* tail, who was in the room then, and how far its redo has got
  wsManager,   \* a page's WebSocketManager exercised on its own: socket, callbacks,
               \* the listeners bound on its sockets and the sockets still connected
  invoked      \* the event that last occurred on one of wsManager's sockets and the
               \* callbacks that were invoked for it, in order

engineVars == <<engine, lastCall, truncated, cleared, engineNext>>

serverVars == <<rooms, currentRoom, sioRooms>>

socketVars == <<wsManager, invoked>>

sysVars == <<rooms, currentRoom, sioRooms, inbox, outbox, client, commands, handled, late,
             socketVars>>

vars == <<engine, lastCall, truncated, cleared, engineNext,
          rooms, currentRoom, sioRooms, inbox, outbox, client, commands, handled,
          late, wsManager, invoked>>

\* ------------------------------------------------------------------------
\* JavaScript helpers
\* ------------------------------------------------------------------------

Min(a, b) == IF a < b THEN a ELSE b

Max(a, b) == IF a > b THEN a ELSE b

\* Array.prototype.slice(0, end): a negative end counts from the end of the
\* array, an end beyond the length is clamped to it.
slice(arr, end) ==
  LET n == Len(arr)
      e == IF end < 0 THEN Max(n + end, 0) ELSE Min(end, n)
  IN  SubSeq(arr, 1, e)

\* The elements of a sequence.
Range(seq) == { seq[k] : k \in 1..Len(seq) }

\* ------------------------------------------------------------------------
\* server/drawing-state.js: class DrawingState
\* ------------------------------------------------------------------------

\* constructor()
DrawingState == [strokes |-> <<>>, historyIndex |-> -1]

\* addStroke without the truncation of the redo-pending tail.
addStrokeKeepTail(d, stroke) ==
  [strokes |-> Append(d.strokes, stroke), historyIndex |-> d.historyIndex + 1]

\* addStroke that cuts the list at historyIndex, one stroke too early.
addStrokeDropLast(d, stroke) ==
  [strokes |-> Append(slice(d.strokes, Max(d.historyIndex, 0)), stroke),
   historyIndex |-> d.historyIndex + 1]

\* addStroke(stroke)
addStroke(d, stroke) ==
  LET kept == slice(d.strokes, d.historyIndex + 1)
  IN  [strokes |-> Append(kept, stroke), historyIndex |-> d.historyIndex + 1]

\* undo whose guard admits the lower boundary.
undoOffByOne(d) ==
  IF d.historyIndex >= -1
    THEN [state |-> [d EXCEPT !.historyIndex = @ - 1], ret |-> TRUE]
    ELSE [state |-> d, ret |-> FALSE]

\* undo(): the state after the call and the value returned
undo(d) ==
  IF d.historyIndex > -1
    THEN [state |-> [d EXCEPT !.historyIndex = @ - 1], ret |-> TRUE]
    ELSE [state |-> d, ret |-> FALSE]

\* redo whose guard admits the upper boundary.
redoOffByOne(d) ==
  IF d.historyIndex < Len(d.strokes)
    THEN [state |-> [d EXCEPT !.historyIndex = @ + 1], ret |-> TRUE]
    ELSE [state |-> d, ret |-> FALSE]

\* redo(): the state after the call and the value returned
redo(d) ==
  IF d.historyIndex < Len(d.strokes) - 1
    THEN [state |-> [d EXCEPT !.historyIndex = @ + 1], ret |-> TRUE]
    ELSE [state |-> d, ret |-> FALSE]

\* getVisibleStrokes that stops one stroke early.
getVisibleStrokesShort(d) == slice(d.strokes, d.historyIndex)

\* getVisibleStrokes()
getVisibleStrokes(d) == slice(d.strokes, d.historyIndex + 1)

\* getAllState that leaves out the strokes stored beyond historyIndex.
getAllStateVisible(d) ==
  [strokes |-> slice(d.strokes, d.historyIndex + 1), historyIndex |-> d.historyIndex]

\* getAllState()
getAllState(d) == [strokes |-> d.strokes, historyIndex |-> d.historyIndex]

\* clear that empties the list and leaves the index where it was.
clearKeepIndex(d) == [strokes |-> <<>>, historyIndex |-> d.historyIndex]

\* clear that resets the index and keeps the stored strokes.
clearKeepStrokes(d) == [strokes |-> d.strokes, historyIndex |-> -1]

\* clear()
clear(d) == [strokes |-> <<>>, historyIndex |-> -1]

\* ------------------------------------------------------------------------
\* server/rooms.js: class RoomManager, as functions of the rooms map
\* ------------------------------------------------------------------------

\* Map.prototype.set on a map kept as a function.
MapSet(map, key, value) == (key :> value) @@ map

\* Map.prototype.delete on a map kept as a function.
MapDelete(map, key) == [k \in DOMAIN map \ {key} |-> map[k]]

\* The positions of an id in a users map, which is kept as the sequence of
\* its values in insertion order.
UserPos(users, id) == { k \in 1..Len(users) : users[k].id = id }

\* room.users.has(socketId)
UsersHas(users, id) == UserPos(users, id) # {}

\* A set that never finds the key: the entry is always added at the end.
UsersSetAppend(users, id, user) == Append(users, user)

\* room.users.set(socketId, user): an existing key keeps its position.
UsersSet(users, id, user) ==
  IF UsersHas(users, id)
    THEN [k \in 1..Len(users) |-> IF users[k].id = id THEN user ELSE users[k]]
    ELSE Append(users, user)

\* room.users.delete(socketId)
UsersDelete(users, id) == SelectSeq(users, LAMBDA u : u.id # id)

\* getOrCreateRoom(roomName): the rooms map after the call
getOrCreateRoom(rs, roomName) ==
  IF roomName \notin DOMAIN rs
    THEN MapSet(rs, roomName,
                [name |-> roomName, users |-> <<>>, drawingState |-> DrawingState])
    ELSE rs

\* addUserToRoom(roomName, socketId, username, color): the rooms map after
\* the call; the room returned is its entry for roomName.
addUserToRoom(rs, roomName, socketId, username, color) ==
  LET rs1  == getOrCreateRoom(rs, roomName)
      user == [id |-> socketId, username |-> username, color |-> color,
               cursor |-> [x |-> 0, y |-> 0]]
  IN  [rs1 EXCEPT ![roomName].users = UsersSet(@, socketId, user)]

\* A removeUserFromRoom that keeps the room it has emptied.
removeUserFromRoomKeepRoom(rs, roomName, socketId) ==
  IF roomName \in DOMAIN rs
    THEN [rs EXCEPT ![roomName].users = UsersDelete(@, socketId)]
    ELSE rs

\* A removeUserFromRoom that deletes the room whoever is left in it.
removeUserFromRoomAndRoom(rs, roomName, socketId) ==
  IF roomName \in DOMAIN rs THEN MapDelete(rs, roomName) ELSE rs

\* removeUserFromRoom(roomName, socketId): the rooms map after the call
removeUserFromRoom(rs, roomName, socketId) ==
  IF roomName \in DOMAIN rs
    THEN LET left == UsersDelete(rs[roomName].users, socketId)
         IN  IF Len(left) = 0
               THEN MapDelete(rs, roomName)
               ELSE [rs EXCEPT ![roomName].users = left]
    ELSE rs

\* An updateUserCursor that makes the room it does not find.
updateUserCursorCreating(rs, roomName, socketId, x, y) ==
  IF roomName \in DOMAIN rs /\ UsersHas(rs[roomName].users, socketId)
    THEN [rs EXCEPT ![roomName].users =
            [k \in 1..Len(@) |->
               IF @[k].id = socketId
                 THEN [@[k] EXCEPT !.cursor = [x |-> x, y |-> y]]
                 ELSE @[k]]]
    ELSE IF roomName \notin DOMAIN rs
      THEN MapSet(rs, roomName,
                  [name |-> roomName, users |-> <<>>, drawingState |-> DrawingState])
      ELSE rs

\* updateUserCursor(roomName, socketId, x, y): the rooms map after the call
updateUserCursor(rs, roomName, socketId, x, y) ==
  IF roomName \in DOMAIN rs /\ UsersHas(rs[roomName].users, socketId)
    THEN [rs EXCEPT ![roomName].users =
            [k \in 1..Len(@) |->
               IF @[k].id = socketId
                 THEN [@[k] EXCEPT !.cursor = [x |-> x, y |-> y]]
                 ELSE @[k]]]
    ELSE rs

\* getRoomUsers(roomName)
getRoomUsers(rs, roomName) ==
  IF roomName \in DOMAIN rs THEN rs[roomName].users ELSE <<>>

\* ------------------------------------------------------------------------
\* Events on the wire.  Every event is a record with the same fields; an
\* event uses the fields of its payload and leaves the others blank.
\* ------------------------------------------------------------------------

Null == "null"

\* if (currentRoom): null and the empty string are falsy.
Truthy(x) == x # Null /\ x # ""

Event(type) ==
  [type |-> type, roomName |-> "", username |-> "", userId |-> "", color |-> "",
   users |-> <<>>, stroke |-> 0, historyIndex |-> 0, drawingState |-> DrawingState,
   x |-> 0, y |-> 0]

\* No event handled yet.
NoEvent == [conn |-> "", event |-> Event("none")]

\* No late joiner seen yet.
NoLate == [conn |-> "", before |-> {}, stage |-> "none"]

\* Nothing queued for any connection.
Silence == [x \in Conns |-> <<>>]

\* The palette of generateUserColor.
colors ==
  << "#FF6B6B", "#4ECDC4", "#45B7D1", "#FFA07A",
     "#98D8C8", "#F7DC6F", "#BB8FCE", "#85C1E2",
     "#F8B739", "#52B788", "#E76F51", "#2A9D8F" >>

\* generateUserColor(): the values a call may return.
generateUserColor == { colors[k] : k \in 1..Len(colors) }

\* The colours the model lets generateUserColor return.  The colour is drawn
\* independently of everything else and the server never reads it back.
ColorsDrawn == { c \in generateUserColor : c = colors[1] }

\* ------------------------------------------------------------------------
\* server/server.js: the Socket.IO handlers of one connection
\* ------------------------------------------------------------------------

\* The sockets that are in a Socket.IO room.
SocketsIn(sio, roomName) == { x \in Conns : roomName \in sio[x] }

\* An emit that puts the event ahead of what is already queued.
EmitFirst(out, targets, event) ==
  [x \in Conns |->
     IF x \in targets /\ client[x].phase # "left"
       THEN <<event>> \o out[x]
       ELSE out[x]]

\* An emit to a set of sockets: the event is queued for every target whose
\* transport is still open; a closed socket receives nothing.
Emit(out, targets, event) ==
  [x \in Conns |->
     IF x \in targets /\ client[x].phase # "left"
       THEN Append(out[x], event)
       ELSE out[x]]

\* socket.emit(..): the sender alone.
ToSelf(c) == {c}

\* A broadcast to the room that does not leave the sender out.
ToOthersAndSelf(sio, c, roomName) == SocketsIn(sio, roomName) \cup {c}

\* socket.to(roomName).emit(..): the room without the sender.
ToOthers(sio, c, roomName) == SocketsIn(sio, roomName) \ {c}

\* io.to(roomName).emit(..): the whole room.
ToRoom(sio, roomName) == SocketsIn(sio, roomName)

\* Each handler is given the connection, the event it received and what is
\* already queued for every connection; it sets the server's state and the
\* queues.

\* The join-room handler that sends users-update to the others before
\* user-joined.
OnJoinRoomUpdateFirst(c, event, out) ==
  LET roomName == event.roomName
      username == event.username
  IN  \E userColor \in ColorsDrawn :
        LET rs   == addUserToRoom(rooms, roomName, c, username, userColor)
            sio  == [sioRooms EXCEPT ![c] = @ \cup {roomName}]
            out1 == Emit(out, ToSelf(c),
                         [Event("room-joined") EXCEPT
                            !.userId = c,
                            !.color = userColor,
                            !.users = getRoomUsers(rs, roomName),
                            !.drawingState = getAllState(rs[roomName].drawingState)])
            out2 == Emit(out1, ToOthers(sio, c, roomName),
                         [Event("users-update") EXCEPT
                            !.users = getRoomUsers(rs, roomName)])
            out3 == Emit(out2, ToOthers(sio, c, roomName),
                         [Event("user-joined") EXCEPT
                            !.userId = c, !.username = username, !.color = userColor])
        IN  /\ currentRoom' = [currentRoom EXCEPT ![c] = roomName]
            /\ sioRooms' = sio
            /\ rooms' = rs
            /\ outbox' = out3

\* socket.on('join-room', ({ roomName, username }) => ..)
OnJoinRoom(c, event, out) ==
  LET roomName == event.roomName
      username == event.username
  IN  \E userColor \in ColorsDrawn :
        LET rs   == addUserToRoom(rooms, roomName, c, username, userColor)
            sio  == [sioRooms EXCEPT ![c] = @ \cup {roomName}]
            out1 == Emit(out, ToSelf(c),
                         [Event("room-joined") EXCEPT
                            !.userId = c,
                            !.color = userColor,
                            !.users = getRoomUsers(rs, roomName),
                            !.drawingState = getAllState(rs[roomName].drawingState)])
            out2 == Emit(out1, ToOthers(sio, c, roomName),
                         [Event("user-joined") EXCEPT
                            !.userId = c, !.username = username, !.color = userColor])
            out3 == Emit(out2, ToOthers(sio, c, roomName),
                         [Event("users-update") EXCEPT
                            !.users = getRoomUsers(rs, roomName)])
        IN  /\ currentRoom' = [currentRoom EXCEPT ![c] = roomName]
            /\ sioRooms' = sio
            /\ rooms' = rs
            /\ outbox' = out3

\* socket.on('draw', (strokeData) => ..)
OnDraw(c, event, out) ==
  /\ IF Truthy(currentRoom[c]) /\ currentRoom[c] \in DOMAIN rooms
       THEN /\ rooms' = [rooms EXCEPT ![currentRoom[c]].drawingState =
                                         addStroke(@, event.stroke)]
            /\ outbox' = Emit(out, ToOthers(sioRooms, c, currentRoom[c]),
                              [Event("draw") EXCEPT !.stroke = event.stroke])
       ELSE rooms' = rooms /\ outbox' = out
  /\ UNCHANGED <<currentRoom, sioRooms>>

\* The cursor-move handler with no guard and socket.broadcast in the place of
\* socket.to(currentRoom).
OnCursorMoveToAll(c, event, out) ==
  /\ rooms' = updateUserCursor(rooms, currentRoom[c], c, event.x, event.y)
  /\ outbox' = Emit(out, Conns \ {c},
                    [Event("cursor-update") EXCEPT
                       !.userId = c, !.x = event.x, !.y = event.y])
  /\ UNCHANGED <<currentRoom, sioRooms>>

\* socket.on('cursor-move', ({ x, y }) => ..)
OnCursorMove(c, event, out) ==
  /\ IF Truthy(currentRoom[c])
       THEN /\ rooms' = updateUserCursor(rooms, currentRoom[c], c, event.x, event.y)
            /\ outbox' = Emit(out, ToOthers(sioRooms, c, currentRoom[c]),
                              [Event("cursor-update") EXCEPT
                                 !.userId = c, !.x = event.x, !.y = event.y])
       ELSE rooms' = rooms /\ outbox' = out
  /\ UNCHANGED <<currentRoom, sioRooms>>

\* The undo handler with socket.to in the place of io.to.
OnUndoToOthers(c, event, out) ==
  /\ IF Truthy(currentRoom[c]) /\ currentRoom[c] \in DOMAIN rooms
       THEN LET done == undo(rooms[currentRoom[c]].drawingState)
            IN  /\ rooms' = [rooms EXCEPT ![currentRoom[c]].drawingState = done.state]
                /\ outbox' = IF done.ret
                               THEN Emit(out, ToOthers(sioRooms, c, currentRoom[c]),
                                         [Event("undo") EXCEPT
                                            !.historyIndex = done.state.historyIndex])
                               ELSE out
       ELSE rooms' = rooms /\ outbox' = out
  /\ UNCHANGED <<currentRoom, sioRooms>>

\* socket.on('undo', () => ..)
OnUndo(c, event, out) ==
  /\ IF Truthy(currentRoom[c]) /\ currentRoom[c] \in DOMAIN rooms
       THEN LET done == undo(rooms[currentRoom[c]].drawingState)
            IN  /\ rooms' = [rooms EXCEPT ![currentRoom[c]].drawingState = done.state]
                /\ outbox' = IF done.ret
                               THEN Emit(out, ToRoom(sioRooms, currentRoom[c]),
                                         [Event("undo") EXCEPT
                                            !.historyIndex = done.state.historyIndex])
                               ELSE out
       ELSE rooms' = rooms /\ outbox' = out
  /\ UNCHANGED <<currentRoom, sioRooms>>

\* socket.on('redo', () => ..)
OnRedo(c, event, out) ==
  /\ IF Truthy(currentRoom[c]) /\ currentRoom[c] \in DOMAIN rooms
       THEN LET done == redo(rooms[currentRoom[c]].drawingState)
            IN  /\ rooms' = [rooms EXCEPT ![currentRoom[c]].drawingState = done.state]
                /\ outbox' = IF done.ret
                               THEN Emit(out, ToRoom(sioRooms, currentRoom[c]),
                                         [Event("redo") EXCEPT
                                            !.historyIndex = done.state.historyIndex])
                               ELSE out
       ELSE rooms' = rooms /\ outbox' = out
  /\ UNCHANGED <<currentRoom, sioRooms>>

\* The clear-canvas handler that does nothing for a history that stores no
\* stroke.
OnClearCanvasIfStrokes(c, event, out) ==
  /\ IF /\ Truthy(currentRoom[c])
        /\ currentRoom[c] \in DOMAIN rooms
        /\ rooms[currentRoom[c]].drawingState.strokes # <<>>
       THEN /\ rooms' = [rooms EXCEPT ![currentRoom[c]].drawingState = clear(@)]
            /\ outbox' = Emit(out, ToRoom(sioRooms, currentRoom[c]),
                              Event("clear-canvas"))
       ELSE rooms' = rooms /\ outbox' = out
  /\ UNCHANGED <<currentRoom, sioRooms>>

\* socket.on('clear-canvas', () => ..)
OnClearCanvas(c, event, out) ==
  /\ IF Truthy(currentRoom[c]) /\ currentRoom[c] \in DOMAIN rooms
       THEN /\ rooms' = [rooms EXCEPT ![currentRoom[c]].drawingState = clear(@)]
            /\ outbox' = Emit(out, ToRoom(sioRooms, currentRoom[c]),
                              Event("clear-canvas"))
       ELSE rooms' = rooms /\ outbox' = out
  /\ UNCHANGED <<currentRoom, sioRooms>>

\* The disconnect handler that reads the user list before it removes the
\* user.
OnDisconnectListFirst(c, event, out) ==
  /\ LET sio == [sioRooms EXCEPT ![c] = {}]
     IN  /\ sioRooms' = sio
         /\ IF Truthy(currentRoom[c])
              THEN LET rs   == removeUserFromRoom(rooms, currentRoom[c], c)
                       out1 == Emit(out, ToOthers(sio, c, currentRoom[c]),
                                    [Event("user-left") EXCEPT !.userId = c])
                       out2 == Emit(out1, ToOthers(sio, c, currentRoom[c]),
                                    [Event("users-update") EXCEPT
                                       !.users = getRoomUsers(rooms, currentRoom[c])])
                   IN  /\ rooms' = rs
                       /\ outbox' = out2
              ELSE rooms' = rooms /\ outbox' = out
  /\ UNCHANGED currentRoom

\* socket.on('disconnect', () => ..): Socket.IO has taken the socket out of
\* its rooms before the handler runs.
OnDisconnect(c, event, out) ==
  /\ LET sio == [sioRooms EXCEPT ![c] = {}]
     IN  /\ sioRooms' = sio
         /\ IF Truthy(currentRoom[c])
              THEN LET rs   == removeUserFromRoom(rooms, currentRoom[c], c)
                       out1 == Emit(out, ToOthers(sio, c, currentRoom[c]),
                                    [Event("user-left") EXCEPT !.userId = c])
                       out2 == Emit(out1, ToOthers(sio, c, currentRoom[c]),
                                    [Event("users-update") EXCEPT
                                       !.users = getRoomUsers(rs, currentRoom[c])])
                   IN  /\ rooms' = rs
                       /\ outbox' = out2
              ELSE rooms' = rooms /\ outbox' = out
  /\ UNCHANGED currentRoom

\* ------------------------------------------------------------------------
\* client/canvas.js: class CanvasManager (its history; pixels are left out)
\* ------------------------------------------------------------------------

\* constructor(canvas, wsManager)
CanvasManager == [strokes |-> <<>>, historyIndex |-> -1]

\* CanvasManager.addStroke(stroke)
canvasAddStroke(cm, stroke) ==
  LET kept == slice(cm.strokes, cm.historyIndex + 1)
  IN  [strokes |-> Append(kept, stroke), historyIndex |-> cm.historyIndex + 1]

\* redrawCanvas(): the strokes it replays, in order
redrawCanvas(cm) == slice(cm.strokes, cm.historyIndex + 1)

\* handleRemoteUndo(data)
handleRemoteUndo(cm, data) == [cm EXCEPT !.historyIndex = data.historyIndex]

\* handleRemoteRedo(data)
handleRemoteRedo(cm, data) == [cm EXCEPT !.historyIndex = data.historyIndex]

\* handleRemoteDraw(stroke)
handleRemoteDraw(cm, stroke) == canvasAddStroke(cm, stroke)

\* loadDrawingState(state)
loadDrawingState(cm, state) ==
  [strokes |-> state.strokes, historyIndex |-> state.historyIndex]

\* CanvasManager.clear()
canvasClear(cm) == [strokes |-> <<>>, historyIndex |-> -1]

\* ------------------------------------------------------------------------
\* client/main.js and client/canvas.js: what a page does
\* ------------------------------------------------------------------------

\* new DrawingApp(): no socket, canvasManager = null
DrawingApp == [phase |-> "start", canvasManager |-> CanvasManager]

\* wsManager.emit(event, data): the event goes on the wire to the server.
Send(c, event) == inbox' = [inbox EXCEPT ![c] = Append(@, event)]

\* The next event the server emitted to connection c is of this type.
Arrived(c, type) ==
  /\ outbox[c] # <<>>
  /\ Head(outbox[c]).type = type

Received(c) == outbox' = [outbox EXCEPT ![c] = Tail(@)]

\* DrawingApp.joinRoom(): connect, emit join-room, listen for room-joined
ClientJoinRoom(c) ==
  /\ client[c].phase = "start"
  /\ \E roomName \in RoomNames, username \in Usernames :
       Send(c, [Event("join-room") EXCEPT !.roomName = roomName, !.username = username])
  /\ client' = [client EXCEPT ![c].phase = "joining"]
  /\ UNCHANGED <<engineVars, socketVars, rooms, currentRoom, sioRooms, handled, late, outbox, commands>>

\* the 'room-joined' listener of joinRoom()
RecvRoomJoined(c) ==
  /\ Arrived(c, "room-joined")
  /\ Received(c)
  /\ client' = [client EXCEPT
                  ![c].phase = "joined",
                  ![c].canvasManager =
                     loadDrawingState(CanvasManager, Head(outbox[c]).drawingState)]
  /\ UNCHANGED <<engineVars, socketVars, rooms, currentRoom, sioRooms, handled, late, inbox, commands>>

\* CanvasManager.stopDrawing(): a gesture ends
ClientStopDrawing(c) ==
  /\ client[c].phase = "joined"
  /\ commands < MaxCommands
  /\ commands' = commands + 1
  /\ client' = [client EXCEPT ![c].canvasManager = canvasAddStroke(@, commands + 1)]
  /\ Send(c, [Event("draw") EXCEPT !.stroke = commands + 1])
  /\ UNCHANGED <<engineVars, socketVars, rooms, currentRoom, sioRooms, handled, late, outbox>>

\* CanvasManager.undo(): the undo button or Ctrl+Z
ClientUndo(c) ==
  /\ client[c].phase = "joined"
  /\ commands < MaxCommands
  /\ client[c].canvasManager.historyIndex > -1
  /\ commands' = commands + 1
  /\ client' = [client EXCEPT ![c].canvasManager.historyIndex = @ - 1]
  /\ Send(c, Event("undo"))
  /\ UNCHANGED <<engineVars, socketVars, rooms, currentRoom, sioRooms, handled, late, outbox>>

\* CanvasManager.redo(): the redo button or Ctrl+Y
ClientRedo(c) ==
  /\ client[c].phase = "joined"
  /\ commands < MaxCommands
  /\ client[c].canvasManager.historyIndex < Len(client[c].canvasManager.strokes) - 1
  /\ commands' = commands + 1
  /\ client' = [client EXCEPT ![c].canvasManager.historyIndex = @ + 1]
  /\ Send(c, Event("redo"))
  /\ UNCHANGED <<engineVars, socketVars, rooms, currentRoom, sioRooms, handled, late, outbox>>

\* the clear button: emits clear-canvas and changes nothing locally
ClientClear(c) ==
  /\ client[c].phase = "joined"
  /\ commands < MaxCommands
  /\ commands' = commands + 1
  /\ Send(c, Event("clear-canvas"))
  /\ UNCHANGED <<engineVars, socketVars, rooms, currentRoom, sioRooms, handled, late, outbox, client>>

\* DrawingApp.leaveRoom(), or the page is closed: the socket disconnects,
\* the server hears of it after the events already sent, and whatever was
\* still on its way to the page is lost.
ClientLeave(c) ==
  /\ client[c].phase \in {"joining", "joined"}
  /\ Send(c, Event("disconnect"))
  /\ client' = [client EXCEPT ![c] = [phase |-> "left", canvasManager |-> CanvasManager]]
  /\ outbox' = [outbox EXCEPT ![c] = <<>>]
  /\ UNCHANGED <<engineVars, socketVars, rooms, currentRoom, sioRooms, handled, late, commands>>

\* the 'draw' listener of setupSocketListeners()
RecvDraw(c) ==
  /\ client[c].phase = "joined"
  /\ Arrived(c, "draw")
  /\ Received(c)
  /\ client' = [client EXCEPT ![c].canvasManager =
                                 handleRemoteDraw(@, Head(outbox[c]).stroke)]
  /\ UNCHANGED <<engineVars, socketVars, rooms, currentRoom, sioRooms, handled, late, inbox, commands>>

\* the 'undo' listener
RecvUndo(c) ==
  /\ client[c].phase = "joined"
  /\ Arrived(c, "undo")
  /\ Received(c)
  /\ client' = [client EXCEPT ![c].canvasManager = handleRemoteUndo(@, Head(outbox[c]))]
  /\ UNCHANGED <<engineVars, socketVars, rooms, currentRoom, sioRooms, handled, late, inbox, commands>>

\* the 'redo' listener
RecvRedo(c) ==
  /\ client[c].phase = "joined"
  /\ Arrived(c, "redo")
  /\ Received(c)
  /\ client' = [client EXCEPT ![c].canvasManager = handleRemoteRedo(@, Head(outbox[c]))]
  /\ UNCHANGED <<engineVars, socketVars, rooms, currentRoom, sioRooms, handled, late, inbox, commands>>

\* the 'clear-canvas' listener
RecvClearCanvas(c) ==
  /\ client[c].phase = "joined"
  /\ Arrived(c, "clear-canvas")
  /\ Received(c)
  /\ client' = [client EXCEPT ![c].canvasManager = canvasClear(@)]
  /\ UNCHANGED <<engineVars, socketVars, rooms, currentRoom, sioRooms, handled, late, inbox, commands>>

\* the 'user-joined', 'user-left' and 'users-update' listeners: they change
\* the user list of the page and leave the canvas alone
RecvUsers(c) ==
  /\ client[c].phase = "joined"
  /\ outbox[c] # <<>>
  /\ Head(outbox[c]).type \in {"user-joined", "user-left", "users-update"}
  /\ Received(c)
  /\ UNCHANGED <<engineVars, socketVars, rooms, currentRoom, sioRooms, handled, late, inbox, client, commands>>

\* ------------------------------------------------------------------------
\* The server with the pages: the server takes the next event of a
\* connection off the wire and handles it
\* ------------------------------------------------------------------------

Pending(c, type) ==
  /\ inbox[c] # <<>>
  /\ Head(inbox[c]).type = type

Taken(c) ==
  /\ inbox' = [inbox EXCEPT ![c] = Tail(@)]
  /\ UNCHANGED <<engineVars, socketVars, client, commands, handled, late>>

HandleJoinRoom(c) ==
  Pending(c, "join-room") /\ OnJoinRoom(c, Head(inbox[c]), outbox) /\ Taken(c)

HandleDraw(c) ==
  Pending(c, "draw") /\ OnDraw(c, Head(inbox[c]), outbox) /\ Taken(c)

HandleUndo(c) ==
  Pending(c, "undo") /\ OnUndo(c, Head(inbox[c]), outbox) /\ Taken(c)

HandleRedo(c) ==
  Pending(c, "redo") /\ OnRedo(c, Head(inbox[c]), outbox) /\ Taken(c)

HandleClearCanvas(c) ==
  Pending(c, "clear-canvas") /\ OnClearCanvas(c, Head(inbox[c]), outbox) /\ Taken(c)

HandleDisconnect(c) ==
  Pending(c, "disconnect") /\ OnDisconnect(c, Head(inbox[c]), outbox) /\ Taken(c)

\* ------------------------------------------------------------------------
\* The history engine on its own: any sequence of calls on a fresh engine
\* ------------------------------------------------------------------------

\* ------------------------------------------------------------------------
\* websocket.js: WebSocketManager.  A socket is the number of the connect()
\* call that made it, 0 stands for null; a callback is the number of the on()
\* call that registered it.
\* ------------------------------------------------------------------------

\* new WebSocketManager(): no socket, no callbacks.  listeners holds the pairs
\* <<socket, event>> for which socket.on(event, ...) was called, connected the
\* sockets that io() made and that were not disconnected.
WebSocketManager ==
  [socket |-> 0, callbacks |-> <<>>, listeners |-> {}, connected |-> {}]

\* No event has occurred on a socket since the manager was last changed.
NoOccurrence == [socket |-> 0, event |-> "", calls |-> <<>>]

\* connect(): this.socket = io(url), a new socket each time.
connect(ws, s) ==
  [ws EXCEPT !.socket = s, !.connected = @ \cup {s}]

\* on(event, callback): the socket listener is bound only when the event has
\* no callback list yet, on the socket of that moment.
on(ws, event, callback) ==
  IF event \notin DOMAIN ws.callbacks
    THEN [ws EXCEPT !.callbacks = MapSet(@, event, <<callback>>),
                    !.listeners = @ \cup {<<ws.socket, event>>}]
    ELSE [ws EXCEPT !.callbacks[event] = Append(@, callback)]

\* disconnect(): closes the current socket and keeps it in this.socket.
disconnect(ws) ==
  IF ws.socket # 0 THEN [ws EXCEPT !.connected = @ \ {ws.socket}] ELSE ws

\* The callbacks invoked, in order, when event occurs on socket s: those the
\* listener bound on s for the event finds in this.callbacks[event].
Dispatch(ws, s, event) ==
  IF <<s, event>> \in ws.listeners THEN ws.callbacks[event] ELSE <<>>

NoCall == [op |-> "new", arg |-> 0, ret |-> FALSE, before |-> DrawingState]

\* The strokes stored beyond historyIndex (the redo-pending tail).
PendingTail(d) ==
  { d.strokes[k] : k \in { j \in 1..Len(d.strokes) : j > d.historyIndex + 1 } }

Init ==
  /\ engine = DrawingState
  /\ lastCall = NoCall
  /\ truncated = {}
  /\ cleared = {}
  /\ engineNext = 1
  /\ rooms = <<>>
  /\ currentRoom = [c \in Conns |-> Null]
  /\ sioRooms = [c \in Conns |-> {}]
  /\ inbox = [c \in Conns |-> <<>>]
  /\ outbox = [c \in Conns |-> <<>>]
  /\ client = [c \in Conns |-> DrawingApp]
  /\ commands = 0
  /\ handled = NoEvent
  /\ late = NoLate
  /\ wsManager = WebSocketManager
  /\ invoked = NoOccurrence

EngineAddStroke ==
  /\ engineNext <= MaxEngineStrokes
  /\ engine' = addStroke(engine, engineNext)
  /\ lastCall' = [op |-> "addStroke", arg |-> engineNext, ret |-> TRUE, before |-> engine]
  /\ truncated' = truncated \cup PendingTail(engine)
  /\ engineNext' = engineNext + 1
  /\ UNCHANGED <<cleared, sysVars>>

EngineUndo ==
  /\ engine' = undo(engine).state
  /\ lastCall' = [op |-> "undo", arg |-> 0, ret |-> undo(engine).ret, before |-> engine]
  /\ UNCHANGED <<truncated, cleared, engineNext, sysVars>>

EngineRedo ==
  /\ engine' = redo(engine).state
  /\ lastCall' = [op |-> "redo", arg |-> 0, ret |-> redo(engine).ret, before |-> engine]
  /\ UNCHANGED <<truncated, cleared, engineNext, sysVars>>

EngineClear ==
  /\ engine' = clear(engine)
  /\ lastCall' = [op |-> "clear", arg |-> 0, ret |-> TRUE, before |-> engine]
  /\ cleared' = cleared \cup Range(engine.strokes)
  /\ UNCHANGED <<truncated, engineNext, sysVars>>

EngineNext ==
  \/ EngineAddStroke
  \/ EngineUndo
  \/ EngineRedo
  \/ EngineClear

\* ------------------------------------------------------------------------
\* The server with its clients
\* ------------------------------------------------------------------------

Next ==
  \E c \in Conns :
    \/ HandleJoinRoom(c)
    \/ HandleDraw(c)
    \/ HandleUndo(c)
    \/ HandleRedo(c)
    \/ HandleClearCanvas(c)
    \/ HandleDisconnect(c)
    \/ ClientJoinRoom(c)
    \/ ClientStopDrawing(c)
    \/ ClientUndo(c)
    \/ ClientRedo(c)
    \/ ClientClear(c)
    \/ ClientLeave(c)
    \/ RecvRoomJoined(c)
    \/ RecvDraw(c)
    \/ RecvUndo(c)
    \/ RecvRedo(c)
    \/ RecvClearCanvas(c)
    \/ RecvUsers(c)

\* ------------------------------------------------------------------------
\* The server on its own: connections that send any event in any order.
\* The server handles an event to completion before the next one arrives;
\* outbox holds what the last handler emitted.
\* ------------------------------------------------------------------------

\* An open connection c sends this event and the server has handled it.
Sent(c, event) ==
  /\ client[c].phase # "left"
  /\ handled' = [conn |-> c, event |-> event]
  /\ UNCHANGED <<engineVars, socketVars, inbox, late>>

Open(c) == UNCHANGED <<client, commands>>

RawJoinRoom(c) ==
  \E roomName \in RoomNames, username \in Usernames :
    LET event == [Event("join-room") EXCEPT !.roomName = roomName, !.username = username]
    IN  Sent(c, event) /\ OnJoinRoom(c, event, Silence) /\ Open(c)

RawDraw(c) ==
  LET event == [Event("draw") EXCEPT !.stroke = commands + 1]
  IN  /\ commands < MaxCommands
      /\ commands' = commands + 1
      /\ Sent(c, event)
      /\ OnDraw(c, event, Silence)
      /\ UNCHANGED client

\* The mouse moves over the canvas of connection c.
RawCursorMove(c) ==
  \E p \in CursorPoints :
    LET event == [Event("cursor-move") EXCEPT !.x = p.x, !.y = p.y]
    IN  Sent(c, event) /\ OnCursorMove(c, event, Silence) /\ Open(c)

RawUndo(c) == Sent(c, Event("undo")) /\ OnUndo(c, Event("undo"), Silence) /\ Open(c)

RawRedo(c) == Sent(c, Event("redo")) /\ OnRedo(c, Event("redo"), Silence) /\ Open(c)

RawClearCanvas(c) ==
  Sent(c, Event("clear-canvas")) /\ OnClearCanvas(c, Event("clear-canvas"), Silence) /\ Open(c)

\* The connection closes for good.
RawDisconnect(c) ==
  /\ Sent(c, Event("disconnect"))
  /\ OnDisconnect(c, Event("disconnect"), Silence)
  /\ client' = [client EXCEPT ![c].phase = "left"]
  /\ UNCHANGED commands

ServerNext ==
  \E c \in Conns :
    \/ RawJoinRoom(c)
    \/ RawDraw(c)
    \/ RawUndo(c)
    \/ RawRedo(c)
    \/ RawClearCanvas(c)
    \/ RawDisconnect(c)

SpecEngine == Init /\ [][EngineNext]_vars

SpecServer == Init /\ [][ServerNext]_vars

\* ------------------------------------------------------------------------
\* The server on its own, mouse movements included: connections that send
\* any event in any order, of which PointerStrokes are draw events.
\* ------------------------------------------------------------------------

InitPointer ==
  /\ engine = DrawingState
  /\ lastCall = NoCall
  /\ truncated = {}
  /\ cleared = {}
  /\ engineNext = 1
  /\ rooms = <<>>
  /\ currentRoom = [c \in Conns |-> Null]
  /\ sioRooms = [c \in Conns |-> {}]
  /\ inbox = [c \in Conns |-> <<>>]
  /\ outbox = [c \in Conns |-> <<>>]
  /\ client = [c \in Conns |-> DrawingApp]
  /\ commands = MaxCommands - PointerStrokes
  /\ handled = NoEvent
  /\ late = NoLate
  /\ wsManager = WebSocketManager
  /\ invoked = NoOccurrence

PointerNext ==
  \E c \in Conns :
    \/ RawJoinRoom(c)
    \/ RawDraw(c)
    \/ RawCursorMove(c)
    \/ RawUndo(c)
    \/ RawRedo(c)
    \/ RawClearCanvas(c)
    \/ RawDisconnect(c)

SpecPointer == InitPointer /\ [][PointerNext]_vars

Spec == Init /\ [][Next]_vars

\* ------------------------------------------------------------------------
\* The server with its pages, and the first late joiner followed: the first
\* connection whose join-room finds a redo-pending tail in the room, the
\* members it finds there, its first redo after the join and what the
\* server makes of that redo.  The pages give ExtraCommands more commands.
\* ------------------------------------------------------------------------

InitLate ==
  /\ engine = DrawingState
  /\ lastCall = NoCall
  /\ truncated = {}
  /\ cleared = {}
  /\ engineNext = 1
  /\ rooms = <<>>
  /\ currentRoom = [c \in Conns |-> Null]
  /\ sioRooms = [c \in Conns |-> {}]
  /\ inbox = [c \in Conns |-> <<>>]
  /\ outbox = [c \in Conns |-> <<>>]
  /\ client = [c \in Conns |-> DrawingApp]
  /\ commands = 0 - ExtraCommands
  /\ handled = NoEvent
  /\ late = NoLate
  /\ wsManager = WebSocketManager
  /\ invoked = NoOccurrence

\* The server takes the next event of connection c; the late joiner's record
\* becomes l.
TakenLate(c, l) ==
  /\ inbox' = [inbox EXCEPT ![c] = Tail(@)]
  /\ late' = l
  /\ UNCHANGED <<engineVars, socketVars, client, commands, handled>>

LateHandleJoinRoom(c) ==
  LET r == Head(inbox[c]).roomName
  IN  /\ Pending(c, "join-room")
      /\ OnJoinRoom(c, Head(inbox[c]), outbox)
      /\ TakenLate(c, IF /\ late.stage = "none"
                         /\ client[c].phase # "left"
                         /\ r \in DOMAIN rooms
                         /\ PendingTail(rooms[r].drawingState) # {}
                        THEN [conn |-> c,
                              before |-> { m \in Conns \ {c} :
                                             /\ client[m].phase # "left"
                                             /\ UsersHas(rooms[r].users, m) },
                              stage |-> "joined"]
                        ELSE late)

LateClientRedo(c) ==
  /\ client[c].phase = "joined"
  /\ commands < MaxCommands
  /\ client[c].canvasManager.historyIndex < Len(client[c].canvasManager.strokes) - 1
  /\ commands' = commands + 1
  /\ client' = [client EXCEPT ![c].canvasManager.historyIndex = @ + 1]
  /\ Send(c, Event("redo"))
  /\ late' = IF late.conn = c /\ late.stage = "joined"
               THEN [late EXCEPT !.stage = "issued"]
               ELSE late
  /\ UNCHANGED <<engineVars, socketVars, rooms, currentRoom, sioRooms, handled, outbox>>

LateHandleRedo(c) ==
  /\ Pending(c, "redo")
  /\ OnRedo(c, Head(inbox[c]), outbox)
  /\ TakenLate(c, IF late.conn = c /\ late.stage = "issued"
                    THEN [late EXCEPT !.stage =
                            IF /\ currentRoom[c] \in DOMAIN rooms
                               /\ redo(rooms[currentRoom[c]].drawingState).ret
                              THEN "broadcast"
                              ELSE "failed"]
                    ELSE late)

LateNext ==
  \E c \in Conns :
    \/ LateHandleJoinRoom(c)
    \/ HandleDraw(c)
    \/ HandleUndo(c)
    \/ LateHandleRedo(c)
    \/ HandleClearCanvas(c)
    \/ HandleDisconnect(c)
    \/ ClientJoinRoom(c)
    \/ ClientStopDrawing(c)
    \/ ClientUndo(c)
    \/ LateClientRedo(c)
    \/ ClientClear(c)
    \/ ClientLeave(c)
    \/ RecvRoomJoined(c)
    \/ RecvDraw(c)
    \/ RecvUndo(c)
    \/ RecvRedo(c)
    \/ RecvClearCanvas(c)
    \/ RecvUsers(c)

SpecLate == InitLate /\ [][LateNext]_vars

\* ========================================================================
\* Properties of the history engine (checked under SpecEngine)
\* ========================================================================

\* The strokes at positions 0..historyIndex of a history, in order.
Prefix(d) == [k \in 1..(d.historyIndex + 1) |-> d.strokes[k]]

\* C1: after every addStroke, undo, redo and clear call on an engine that
\* started fresh, -1 <= historyIndex <= length(strokes) - 1.
C1_BoundsInvariant ==
  /\ -1 <= engine.historyIndex
  /\ engine.historyIndex <= Len(engine.strokes) - 1

\* An undo at the lower boundary of a history that has a redo-pending tail
\* and has lost strokes to a truncation.
C1_Witness ==
  /\ lastCall.op = "undo"
  /\ ~lastCall.ret
  /\ Len(engine.strokes) >= 2
  /\ truncated # {}

\* C3: addStroke called with a redo-pending tail discards the whole tail
\* before it appends; right after any addStroke historyIndex is the last
\* position, so redo fails; and a stroke discarded by a truncation is never
\* among the visible strokes again, whatever calls follow.
C3_TruncationLaw ==
  /\ lastCall.op = "addStroke" =>
       /\ PendingTail(lastCall.before) \cap Range(engine.strokes) = {}
       /\ engine.historyIndex = Len(engine.strokes) - 1
       /\ ~redo(engine).ret
  /\ engine.historyIndex <= Len(engine.strokes) - 1
  /\ truncated \cap Range(Prefix(engine)) = {}

\* A truncation happened, and later undo and redo calls moved the pointer
\* back to the top of the list.
C3_Witness ==
  /\ truncated # {}
  /\ lastCall.op = "redo"
  /\ lastCall.ret
  /\ engine.historyIndex = Len(engine.strokes) - 1
  /\ Len(engine.strokes) >= 2

\* C4: addStroke(stroke) from strokes = S, historyIndex = i yields
\* strokes = S[0..i] followed by stroke and historyIndex = i + 1 =
\* length(strokes) - 1.
C4_AddStrokeResult ==
  lastCall.op = "addStroke" =>
    /\ lastCall.before.historyIndex + 1 <= Len(lastCall.before.strokes)
    /\ engine.strokes = Append(Prefix(lastCall.before), lastCall.arg)
    /\ engine.historyIndex = lastCall.before.historyIndex + 1
    /\ engine.historyIndex = Len(engine.strokes) - 1

\* addStroke called on a history whose pointer is in the middle of the list.
C4_Witness ==
  /\ lastCall.op = "addStroke"
  /\ lastCall.before.historyIndex >= 0
  /\ lastCall.before.historyIndex < Len(lastCall.before.strokes) - 1

\* C5: undo with historyIndex > -1 decrements historyIndex by one, leaves
\* strokes unchanged and returns success; with historyIndex = -1 it returns
\* failure and leaves strokes and historyIndex unchanged.
C5_UndoContract ==
  lastCall.op = "undo" =>
    IF lastCall.before.historyIndex > -1
      THEN /\ lastCall.ret
           /\ engine.historyIndex = lastCall.before.historyIndex - 1
           /\ engine.strokes = lastCall.before.strokes
      ELSE /\ ~lastCall.ret
           /\ engine = lastCall.before

\* A failed undo on a history that still stores strokes.
C5_Witness ==
  /\ lastCall.op = "undo"
  /\ ~lastCall.ret
  /\ lastCall.before.historyIndex = -1
  /\ Len(engine.strokes) >= 1

\* C6: redo with historyIndex < length(strokes) - 1 increments historyIndex
\* by one, leaves strokes unchanged and returns success; with historyIndex =
\* length(strokes) - 1 it returns failure and leaves both unchanged.
C6_RedoContract ==
  lastCall.op = "redo" =>
    IF lastCall.before.historyIndex < Len(lastCall.before.strokes) - 1
      THEN /\ lastCall.ret
           /\ engine.historyIndex = lastCall.before.historyIndex + 1
           /\ engine.strokes = lastCall.before.strokes
      ELSE /\ ~lastCall.ret
           /\ engine = lastCall.before

\* A failed redo at the top of a history that stores strokes.
C6_Witness ==
  /\ lastCall.op = "redo"
  /\ ~lastCall.ret
  /\ lastCall.before.historyIndex = Len(lastCall.before.strokes) - 1
  /\ Len(engine.strokes) >= 1

\* C7: clear resets strokes to the empty sequence and historyIndex to -1;
\* right after it undo and redo both fail; and no stroke that was stored
\* when clear was called is ever visible again.
C7_ClearContract ==
  /\ lastCall.op = "clear" =>
       /\ engine.strokes = <<>>
       /\ engine.historyIndex = -1
       /\ ~undo(engine).ret
       /\ ~redo(engine).ret
  /\ engine.historyIndex <= Len(engine.strokes) - 1
  /\ cleared \cap Range(Prefix(engine)) = {}

\* A clear of a history that held visible and redo-pending strokes.
C7_Witness ==
  /\ lastCall.op = "clear"
  /\ lastCall.before.historyIndex >= 0
  /\ lastCall.before.historyIndex < Len(lastCall.before.strokes) - 1

\* C8: in every reachable state getVisibleStrokes() is the prefix
\* strokes[0..historyIndex] in order, of length historyIndex + 1, and holds
\* no stroke stored beyond historyIndex.
C8_VisiblePrefix ==
  /\ engine.historyIndex + 1 <= Len(engine.strokes)
  /\ getVisibleStrokes(engine) = Prefix(engine)
  /\ Len(getVisibleStrokes(engine)) = engine.historyIndex + 1
  /\ PendingTail(engine) \cap Range(getVisibleStrokes(engine)) = {}

\* A history with both visible and redo-pending strokes.
C8_Witness ==
  /\ engine.historyIndex >= 1
  /\ engine.historyIndex < Len(engine.strokes) - 1

\* ========================================================================
\* Properties of the server's fan-out (checked under SpecServer)
\* ========================================================================

\* The connections that are open and are users of a room of the directory.
Members(r) ==
  { m \in Conns : client[m].phase # "left" /\ UsersHas(rooms[r].users, m) }

\* What the step sends to the members of room r, and to whom.
SentToAll(r, event) == \A m \in Members(r) : outbox'[m] = <<event>>

\* The step that handles an undo or a redo of a Joined connection.
UndoRedoFanOut ==
  LET c    == handled'.conn
      type == handled'.event.type
      r    == currentRoom[c]
      d    == rooms[r].drawingState
      ok   == IF type = "undo"
                THEN d.historyIndex > -1
                ELSE d.historyIndex < Len(d.strokes) - 1
      idx  == IF type = "undo" THEN d.historyIndex - 1 ELSE d.historyIndex + 1
  IN  /\ r \in DOMAIN rooms
      /\ c \in Members(r)
      /\ IF ok
           THEN /\ r \in DOMAIN rooms'
                /\ rooms'[r].drawingState = [d EXCEPT !.historyIndex = idx]
                /\ SentToAll(r, [Event(type) EXCEPT !.historyIndex = idx])
           ELSE /\ rooms' = rooms
                /\ outbox' = Silence

\* C9: when a Joined connection sends undo (redo) and the room's history
\* operation succeeds, every member of the room, the originator included, is
\* sent exactly one undo (redo) event carrying the server's historyIndex as
\* it is right after the operation; when it fails no event is sent to anyone
\* and the history is unchanged.
C9_UndoRedoFanOut ==
  [][ ( /\ handled'.event.type \in {"undo", "redo"}
        /\ Truthy(currentRoom[handled'.conn]) )
      => UndoRedoFanOut ]_vars

\* An undo that succeeded in a room of two members: both hold the one undo
\* event, with the server's historyIndex.
C9_Witness ==
  /\ handled.event.type = "undo"
  /\ \E r \in DOMAIN rooms :
       /\ Members(r) = Conns
       /\ \A m \in Conns :
            outbox[m] = << [Event("undo") EXCEPT
                              !.historyIndex = rooms[r].drawingState.historyIndex] >>

\* The step that handles the clear-canvas of a Joined connection.
ClearFanOut ==
  LET c == handled'.conn
      r == currentRoom[c]
  IN  /\ r \in DOMAIN rooms
      /\ c \in Members(r)
      /\ r \in DOMAIN rooms'
      /\ rooms'[r].drawingState.strokes = <<>>
      /\ rooms'[r].drawingState.historyIndex = -1
      /\ SentToAll(r, Event("clear-canvas"))

\* C11: when a Joined connection sends clear-canvas, the history of its room
\* is cleared whatever it held, an empty history included, and a clear-canvas
\* event is sent to every member of the room, the originator included.
C11_ClearFanOut ==
  [][ ( /\ handled'.event.type = "clear-canvas"
        /\ Truthy(currentRoom[handled'.conn]) )
      => ClearFanOut ]_vars

\* A clear-canvas in a room of two members in which nothing was ever drawn:
\* both hold the one clear-canvas event.
C11_Witness ==
  /\ handled.event.type = "clear-canvas"
  /\ commands = 0
  /\ \E r \in DOMAIN rooms :
       /\ Members(r) = Conns
       /\ rooms[r].drawingState = DrawingState
       /\ \A m \in Conns : outbox[m] = << Event("clear-canvas") >>

\* ========================================================================
\* Properties of the server with its pages (checked under Spec)
\* ========================================================================

\* No event is on its way in either direction.
NothingInFlight == \A c \in Conns : inbox[c] = <<>> /\ outbox[c] = <<>>

\* C2: in every state where no event is in flight, the visible strokes of
\* every client that is in a room are the visible strokes of the server's
\* history of that room.
C2_ViewsConsistent ==
  NothingInFlight =>
    \A c \in Conns :
      client[c].phase = "joined" =>
        /\ currentRoom[c] \in DOMAIN rooms
        /\ redrawCanvas(client[c].canvasManager)
             = getVisibleStrokes(rooms[currentRoom[c]].drawingState)

\* The step in which the server handles a draw of a Joined connection c.
DrawFanOut(c) ==
  LET r      == currentRoom[c]
      stroke == Head(inbox[c]).stroke
      d      == rooms[r].drawingState
  IN  /\ r \in DOMAIN rooms
      /\ r \in DOMAIN rooms'
      /\ rooms'[r].drawingState.strokes = Append(Prefix(d), stroke)
      /\ rooms'[r].drawingState.historyIndex = d.historyIndex + 1
      /\ \A m \in Members(r) \ {c} :
           outbox'[m] = Append(outbox[m], [Event("draw") EXCEPT !.stroke = stroke])
      /\ outbox'[c] = outbox[c]

\* No page stores a stroke twice.
NoStrokeTwice ==
  \A c \in Conns :
    LET s == client[c].canvasManager.strokes
    IN  \A i, j \in 1..Len(s) : s[i] = s[j] => i = j

\* C10: when a Joined connection sends draw(stroke), the stroke is appended
\* to the room's history by addStroke and a draw(stroke) event is sent to
\* every other member of the room and never to the originator, so the
\* originator, which applied the stroke before sending it, never stores it
\* twice.
C10_DrawFanOut ==
  /\ []NoStrokeTwice
  /\ [][ \A c \in Conns :
           ( /\ Pending(c, "draw")
             /\ inbox'[c] = Tail(inbox[c])
             /\ Truthy(currentRoom[c]) )
           => DrawFanOut(c) ]_vars

\* A stroke drawn by one page is in the server's history and on its way to
\* the other member, and nothing is on its way to the page that drew it.
C10_Witness ==
  \E c, m \in Conns :
    /\ c # m
    /\ client[c].phase = "joined"
    /\ inbox[c] = <<>>
    /\ outbox[c] = <<>>
    /\ Len(client[c].canvasManager.strokes) = 1
    /\ currentRoom[c] \in DOMAIN rooms
    /\ rooms[currentRoom[c]].drawingState.strokes = client[c].canvasManager.strokes
    /\ client[m].phase = "joined"
    /\ \E k \in 1..Len(outbox[m]) :
         outbox[m][k] = [Event("draw") EXCEPT
                           !.stroke = client[c].canvasManager.strokes[1]]


\* The step in which the server applies the join-room of connection c, whose
\* transport is open: what it finds in the directory and what it sends back.
JoinSnapshot(c) ==
  LET r    == Head(inbox[c]).roomName
      d    == IF r \in DOMAIN rooms THEN rooms[r].drawingState ELSE DrawingState
      sent == outbox'[c][Len(outbox'[c])]
  IN  /\ Len(outbox'[c]) = Len(outbox[c]) + 1
      /\ sent.type = "room-joined"
      /\ sent.drawingState.strokes = d.strokes
      /\ sent.drawingState.historyIndex = d.historyIndex
      /\ r \in DOMAIN rooms'
      /\ rooms'[r].drawingState = d

\* The step in which the page of connection c loads the room-joined event.
SnapshotLoaded(c) ==
  LET state == Head(outbox[c]).drawingState
      cm    == client'[c].canvasManager
  IN  /\ cm.strokes = state.strokes
      /\ cm.historyIndex = state.historyIndex
      /\ redrawCanvas(cm) = Prefix(state)

\* C12: the room-joined event sent to a connection that joins a room carries
\* the room's whole stroke list, the strokes beyond historyIndex included,
\* and its historyIndex as they are on the server when the join is applied;
\* the page that loads it then renders exactly strokes[0..historyIndex].
C12_LateJoinResync ==
  [][ \A c \in Conns :
        /\ ( /\ Pending(c, "join-room")
             /\ inbox'[c] = Tail(inbox[c])
             /\ client[c].phase # "left" )
           => JoinSnapshot(c)
        /\ ( /\ Arrived(c, "room-joined")
             /\ client[c].phase = "joining"
             /\ client'[c].phase = "joined" )
           => SnapshotLoaded(c) ]_vars

\* A page that joined a room after the other page drew two strokes and undid
\* one: it has loaded both strokes with historyIndex 0.  The other page has
\* not yet read the notice of the join, so every command so far was its own.
C12_Witness ==
  \E c, m \in Conns :
    /\ c # m
    /\ client[c].phase = "joined"
    /\ Len(client[c].canvasManager.strokes) = 2
    /\ client[c].canvasManager.historyIndex = 0
    /\ Len(redrawCanvas(client[c].canvasManager)) = 1
    /\ inbox[c] = <<>>
    /\ client[m].phase = "joined"
    /\ inbox[m] = <<>>
    /\ Len(outbox[m]) = 2
    /\ outbox[m][1].type = "user-joined"
    /\ outbox[m][1].userId = c
    /\ outbox[m][2].type = "users-update"


\* ========================================================================
\* Properties of the late joiner (checked under SpecLate)
\* ========================================================================

\* C13: a connection that joined a room while its history had a redo-pending
\* tail and then issued a redo shows, once the server has broadcast that redo
\* and nothing is in flight any more, the same visible strokes as every
\* member that was in the room before it joined.
C13_LateJoinerRedo ==
  ( late.stage = "broadcast" /\ NothingInFlight ) =>
    \A m \in late.before :
      ( /\ client[m].phase = "joined"
        /\ client[late.conn].phase = "joined"
        /\ currentRoom[m] = currentRoom[late.conn] )
      => redrawCanvas(client[late.conn].canvasManager)
           = redrawCanvas(client[m].canvasManager)


\* ========================================================================
\* Properties of the server with mouse movements (checked under SpecPointer)
\* ========================================================================

\* The events a connection may send only after it has joined a room.
RoomEvents == {"draw", "cursor-move", "undo", "redo", "clear-canvas"}

\* C14: a draw, cursor-move, undo, redo or clear-canvas received on a
\* connection that has not joined a room changes the membership and the
\* history of no room and sends no event to any connection.
C14_IgnoredBeforeJoin ==
  [][ ( /\ handled'.event.type \in RoomEvents
        /\ currentRoom[handled'.conn] = Null )
      => ( /\ rooms' = rooms
           /\ sioRooms' = sioRooms
           /\ currentRoom' = currentRoom
           /\ outbox' = Silence ) ]_vars

\* A cursor-move arrived on a connection that has joined no room while the
\* other connection is in a room that holds a stroke: nobody was sent
\* anything.
C14_Witness ==
  \E c, m \in Conns :
    /\ handled.conn = c
    /\ handled.event.type = "cursor-move"
    /\ handled.event.x # 0
    /\ currentRoom[c] = Null
    /\ client[m].phase # "left"
    /\ currentRoom[m] \in DOMAIN rooms
    /\ rooms[currentRoom[m]].drawingState.strokes # <<>>
    /\ outbox = Silence


\* ========================================================================
\* Properties of a connection's life (checked under SpecServer)
\* ========================================================================

\* C15: once a connection has joined room r, a further join-room on it does
\* not change its room: its currentRoom stays r in every later step, its
\* disconnect included.
C15_JoinedIsTerminal ==
  [][ \A c \in Conns :
        Truthy(currentRoom[c]) => currentRoom'[c] = currentRoom[c] ]_vars

\* The users of room r are the ids of these connections.
UserIds(rs, r) == { rs[r].users[k].id : k \in 1..Len(rs[r].users) }

\* C16: when the last member of room r disconnects, r is removed from the
\* directory in that step; and a connection that joins the name r when every
\* member of r has disconnected is given a fresh history, strokes = [] and
\* historyIndex = -1, whatever strokes r held before.
C16_RoomLifecycle ==
  [][ \A r \in RoomNames :
        /\ ( /\ handled'.event.type = "disconnect"
             /\ r \in DOMAIN rooms
             /\ handled'.conn \in UserIds(rooms, r)
             /\ Members(r) \ {handled'.conn} = {} )
           => r \notin DOMAIN rooms'
        /\ ( /\ handled'.event.type = "join-room"
             /\ handled'.event.roomName = r
             /\ r \in DOMAIN rooms => Members(r) = {} )
           => ( /\ r \in DOMAIN rooms'
                /\ rooms'[r].drawingState = DrawingState
                /\ outbox'[handled'.conn][1].drawingState = DrawingState ) ]_vars

\* C17: after the disconnect of a connection has been handled, its id is a
\* user of no room of the directory.
C17_UserDestroyed ==
  \A c \in Conns :
    client[c].phase = "left" =>
      \A r \in DOMAIN rooms : c \notin UserIds(rooms, r)


\* The ids listed in a users array.
ListedIds(users) == { users[k].id : k \in 1..Len(users) }

\* The step that handles the disconnect of a connection that is Joined.
DisconnectNotices ==
  LET c    == handled'.conn
      r    == currentRoom[c]
      rest == Members(r) \ {c}
      list == IF r \in DOMAIN rooms' THEN rooms'[r].users ELSE <<>>
  IN  /\ r \in DOMAIN rooms
      /\ ListedIds(list) = UserIds(rooms, r) \ {c}
      /\ \A m \in rest :
           outbox'[m] = << [Event("user-left") EXCEPT !.userId = c],
                           [Event("users-update") EXCEPT !.users = list] >>
      /\ \A x \in Conns \ rest : outbox'[x] = <<>>

\* C18: when a Joined connection disconnects, every remaining member of its
\* room, the room its currentRoom names, is sent user-left with its id and
\* then users-update with the users that remain in the room, the
\* disconnected one not among them; the disconnected connection and every
\* connection that is not in that room are sent nothing.
C18_DisconnectNotices ==
  [][ ( /\ handled'.event.type = "disconnect"
        /\ Truthy(currentRoom[handled'.conn]) )
      => DisconnectNotices ]_vars

\* One of the two members of a room has disconnected: the other holds
\* user-left and then users-update listing itself alone.
C18_Witness ==
  \E c, m \in Conns :
    /\ c # m
    /\ handled.conn = c
    /\ handled.event.type = "disconnect"
    /\ client[m].phase # "left"
    /\ currentRoom[m] = currentRoom[c]
    /\ Len(outbox[m]) = 2
    /\ outbox[m][1] = [Event("user-left") EXCEPT !.userId = c]
    /\ outbox[m][2].type = "users-update"
    /\ ListedIds(outbox[m][2].users) = {m}
    /\ outbox[c] = <<>>

\* The step that handles a join-room.
JoinNotices ==
  LET c      == handled'.conn
      r      == handled'.event.roomName
      others == { m \in Conns \ {c} :
                    client[m].phase # "left" /\ UsersHas(rooms'[r].users, m) }
      joined == outbox'[c][1]
  IN  /\ r \in DOMAIN rooms'
      /\ Len(outbox'[c]) = 1
      /\ joined.type = "room-joined"
      /\ joined.userId = c
      /\ joined.users = rooms'[r].users
      /\ c \in ListedIds(joined.users)
      /\ \A m \in others :
           outbox'[m] = << [Event("user-joined") EXCEPT
                              !.userId = c,
                              !.username = handled'.event.username,
                              !.color = joined.color],
                           [Event("users-update") EXCEPT !.users = rooms'[r].users] >>
      /\ \A x \in Conns \ (others \cup {c}) : outbox'[x] = <<>>

\* C19: on join-room the originator alone is sent room-joined, whose users
\* list is the room's users after the join, the originator among them; every
\* other member of the room is sent user-joined for the new user and then
\* users-update listing all the users, in that order.
C19_JoinNotices ==
  [][ handled'.event.type = "join-room" => JoinNotices ]_vars

\* A second connection has joined a room: it holds room-joined listing both
\* users, and the first member holds user-joined and then users-update.
C19_Witness ==
  \E c, m \in Conns :
    /\ c # m
    /\ handled.conn = c
    /\ handled.event.type = "join-room"
    /\ Len(outbox[c]) = 1
    /\ outbox[c][1].type = "room-joined"
    /\ ListedIds(outbox[c][1].users) = {c, m}
    /\ Len(outbox[m]) = 2
    /\ outbox[m][1].type = "user-joined"
    /\ outbox[m][1].userId = c
    /\ outbox[m][2].type = "users-update"
    /\ ListedIds(outbox[m][2].users) = {c, m}


\* ========================================================================
\* Order of events (checked under Spec)
\* ========================================================================

\* Sequence a is the beginning of sequence b.
IsPrefix(a, b) == Len(a) <= Len(b) /\ SubSeq(b, 1, Len(a)) = a

\* The positions of a stroke in a stroke list.
PositionsOf(stroke, strokes) == { k \in 1..Len(strokes) : strokes[k] = stroke }

\* What is on its way to a page agrees with the order in which the server
\* applied it: two draw events whose strokes the room's history still
\* stores are queued in the order of the history, and a stroke whose draw
\* event is queued ahead of a clear-canvas event was cleared with it.
BroadcastsInApplyOrder ==
  \A m \in Conns :
    currentRoom[m] \in DOMAIN rooms =>
      LET q       == outbox[m]
          strokes == rooms[currentRoom[m]].drawingState.strokes
      IN  \A i, j \in 1..Len(q) :
            ( i < j /\ q[i].type = "draw" ) =>
              /\ q[j].type = "draw" =>
                   \A a \in PositionsOf(q[i].stroke, strokes) :
                     \A b \in PositionsOf(q[j].stroke, strokes) : a < b
              /\ q[j].type = "clear-canvas" =>
                   PositionsOf(q[i].stroke, strokes) = {}

\* Every step treats the two queues of every connection as queues: the
\* server takes the oldest event a connection sent, and a draw it takes is
\* the stroke it appends; what it emits goes behind what is already queued;
\* a page sends behind what it has sent and takes the oldest event queued.
QueueDiscipline ==
  \A x \in Conns :
    /\ \/ inbox'[x] = inbox[x]
       \/ /\ Len(inbox'[x]) = Len(inbox[x]) + 1
          /\ IsPrefix(inbox[x], inbox'[x])
       \/ /\ inbox[x] # <<>>
          /\ inbox'[x] = Tail(inbox[x])
          /\ ( /\ Head(inbox[x]).type = "draw"
               /\ currentRoom[x] \in DOMAIN rooms )
             => LET after == rooms'[currentRoom[x]].drawingState
                IN  /\ after.historyIndex = Len(after.strokes) - 1
                    /\ after.strokes[Len(after.strokes)] = Head(inbox[x]).stroke
    /\ \/ IsPrefix(outbox[x], outbox'[x])
       \/ outbox[x] # <<>> /\ outbox'[x] = Tail(outbox[x])
       \/ client'[x].phase = "left" /\ outbox'[x] = <<>>

CanvasEvents == {"draw", "undo", "redo", "clear-canvas", "cursor-update"}

\* C21: for two different room names R and R2, an event sent by a connection
\* whose current room is R changes neither the strokes, the historyIndex nor
\* the users of R2, and sends no draw, undo, redo, clear-canvas or
\* cursor-update to a connection whose current room is R2.
C21_RoomIsolation ==
  [][ LET c == handled'.conn
          R == currentRoom[c]
      IN  Truthy(R) =>
            \A R2 \in RoomNames \ {R} :
              /\ R2 \in DOMAIN rooms <=> R2 \in DOMAIN rooms'
              /\ R2 \in DOMAIN rooms => rooms'[R2] = rooms[R2]
              /\ \A x \in Conns :
                   currentRoom[x] = R2 =>
                     \A k \in 1..Len(outbox'[x]) :
                       outbox'[x][k].type \notin CanvasEvents ]_vars



\* ========================================================================
\* The room directory on its own: RoomManager's methods called directly
\* ========================================================================

\* The strokes a room's history is given at most in the calls made directly.
DirStrokes == 1

\* The username and colour a user is added with.
DirProfiles ==
  { [username |-> "ann", color |-> colors[1]],
    [username |-> "bob", color |-> colors[2]] }

\* The call last made: handled.conn is its socketId and handled.event.type
\* the method's name, with the other arguments in the event's fields.
Called(socketId, call) ==
  /\ handled' = [conn |-> socketId, event |-> call]
  /\ UNCHANGED <<engineVars, socketVars, currentRoom, sioRooms, inbox, outbox, client,
                 commands, late>>

DirGetOrCreateRoom(roomName) ==
  /\ rooms' = getOrCreateRoom(rooms, roomName)
  /\ Called("", [Event("getOrCreateRoom") EXCEPT !.roomName = roomName])

DirAddUserToRoom(roomName, socketId, profile) ==
  /\ rooms' = addUserToRoom(rooms, roomName, socketId,
                            profile.username, profile.color)
  /\ Called(socketId, [Event("addUserToRoom") EXCEPT
                         !.roomName = roomName,
                         !.username = profile.username,
                         !.color = profile.color])

DirRemoveUserFromRoom(roomName, socketId) ==
  /\ rooms' = removeUserFromRoom(rooms, roomName, socketId)
  /\ Called(socketId, [Event("removeUserFromRoom") EXCEPT !.roomName = roomName])

DirUpdateUserCursor(roomName, socketId, p) ==
  /\ rooms' = updateUserCursor(rooms, roomName, socketId, p.x, p.y)
  /\ Called(socketId, [Event("updateUserCursor") EXCEPT
                         !.roomName = roomName, !.x = p.x, !.y = p.y])

\* room.drawingState.addStroke(strokeData) on a room of the directory.
DirAddStroke(roomName) ==
  /\ roomName \in DOMAIN rooms
  /\ Len(rooms[roomName].drawingState.strokes) < DirStrokes
  /\ rooms' = [rooms EXCEPT ![roomName].drawingState =
                 addStroke(@, Len(@.strokes) + 1)]
  /\ Called("", [Event("addStroke") EXCEPT !.roomName = roomName])

DirectoryNext ==
  \/ \E roomName \in RoomNames : DirGetOrCreateRoom(roomName)
  \/ \E roomName \in RoomNames, socketId \in Conns, profile \in DirProfiles :
       DirAddUserToRoom(roomName, socketId, profile)
  \/ \E roomName \in RoomNames, socketId \in Conns :
       DirRemoveUserFromRoom(roomName, socketId)
  \/ \E roomName \in RoomNames, socketId \in Conns, p \in CursorPoints :
       DirUpdateUserCursor(roomName, socketId, p)
  \/ \E roomName \in RoomNames : DirAddStroke(roomName)

SpecDirectory == Init /\ [][DirectoryNext]_vars


\* ------------------------------------------------------------------------
\* Claims about the directory's methods (checked under SpecDirectory)
\* ------------------------------------------------------------------------

\* The call made in this step names a room of the directory and one of its
\* users.
CalledOnMember ==
  /\ handled'.event.roomName \in DOMAIN rooms
  /\ UsersHas(rooms[handled'.event.roomName].users, handled'.conn)

\* C22: removeUserFromRoom called with a room name that is not in the
\* directory, or with a socketId that is not a user of that room, leaves the
\* directory as it was: the same rooms, each with the same users and the same
\* history.
C22_RemoveUnknownIsNoOp ==
  [][ handled'.event.type = "removeUserFromRoom" /\ ~CalledOnMember
        => rooms' = rooms ]_vars


\* C23: addUserToRoom for a socketId that is already a user of the room puts
\* the new username and colour and the cursor {0, 0} in that user's entry, in
\* its place; the room has no second entry for the id, and its history and the
\* entries of its other users are unchanged.
C23_ReAddReplaces ==
  [][ handled'.event.type = "addUserToRoom" /\ CalledOnMember =>
        LET roomName == handled'.event.roomName
            socketId == handled'.conn
            old == rooms[roomName].users
            new == rooms'[roomName].users
        IN  /\ DOMAIN rooms' = DOMAIN rooms
            /\ rooms'[roomName].drawingState = rooms[roomName].drawingState
            /\ Len(new) = Len(old)
            /\ Cardinality(UserPos(new, socketId)) = 1
            /\ \A k \in 1..Len(old) :
                 IF old[k].id = socketId
                   THEN new[k] = [id |-> socketId,
                                  username |-> handled'.event.username,
                                  color |-> handled'.event.color,
                                  cursor |-> [x |-> 0, y |-> 0]]
                   ELSE new[k] = old[k] ]_vars

\* A user was added again under another name: its entry stands before the
\* entry of a user added after it, in a room with a stroke, and the other
\* user's cursor has moved.
C23_Witness ==
  /\ handled.event.type = "addUserToRoom"
  /\ handled.event.username = "bob"
  /\ handled.event.roomName \in DOMAIN rooms
  /\ LET room == rooms[handled.event.roomName]
     IN  /\ Len(room.users) = 2
         /\ room.users[1].id = handled.conn
         /\ room.users[1].username = "bob"
         /\ room.users[2].username = "ann"
         /\ room.users[2].cursor \in CursorPoints
         /\ room.drawingState.strokes # <<>>

\* C24: updateUserCursor on a room of the directory and one of its users sets
\* that user's cursor to {x, y} and changes nothing else; on an unknown room
\* or user it changes nothing, and makes neither a room nor a user.
C24_UpdateCursorOnly ==
  [][ handled'.event.type = "updateUserCursor" =>
        IF CalledOnMember
          THEN LET roomName == handled'.event.roomName
                   old == rooms[roomName].users
                   new == rooms'[roomName].users
               IN  /\ DOMAIN rooms' = DOMAIN rooms
                   /\ \A r \in DOMAIN rooms \ {roomName} : rooms'[r] = rooms[r]
                   /\ rooms'[roomName].name = rooms[roomName].name
                   /\ rooms'[roomName].drawingState = rooms[roomName].drawingState
                   /\ Len(new) = Len(old)
                   /\ \A k \in 1..Len(old) :
                        IF old[k].id = handled'.conn
                          THEN new[k] = [old[k] EXCEPT !.cursor =
                                           [x |-> handled'.event.x,
                                            y |-> handled'.event.y]]
                          ELSE new[k] = old[k]
          ELSE rooms' = rooms ]_vars

\* A cursor was set in a room with a stroke and another user, whose cursor is
\* where addUserToRoom put it, while the other room name is not in the
\* directory.
C24_Witness ==
  /\ handled.event.type = "updateUserCursor"
  /\ handled.event.roomName \in DOMAIN rooms
  /\ DOMAIN rooms = {handled.event.roomName}
  /\ LET room == rooms[handled.event.roomName]
     IN  /\ Len(room.users) = 2
         /\ \E k \in 1..2 :
              /\ room.users[k].id = handled.conn
              /\ room.users[k].cursor = [x |-> handled.event.x, y |-> handled.event.y]
              /\ room.users[3 - k].cursor = [x |-> 0, y |-> 0]
         /\ room.drawingState.strokes # <<>>


\* ------------------------------------------------------------------------
\* The page's own history (checked under Spec and SpecLate)
\* ------------------------------------------------------------------------

\* Connection c is joined to a room that no other connection has joined.
AloneInRoom(c) ==
  /\ client[c].phase = "joined"
  /\ Truthy(currentRoom[c])
  /\ \A x \in Conns \ {c} : currentRoom[x] # currentRoom[c]

\* C25: in a room with a single client, whenever no event is in flight the
\* client's strokes and historyIndex are the strokes and historyIndex of the
\* server's history of the room, whatever the client drew, undid, redid or
\* cleared, and however early.
C25_SingleClientConverges ==
  NothingInFlight =>
    \A c \in Conns :
      AloneInRoom(c) =>
        /\ currentRoom[c] \in DOMAIN rooms
        /\ client[c].canvasManager.strokes
             = rooms[currentRoom[c]].drawingState.strokes
        /\ client[c].canvasManager.historyIndex
             = rooms[currentRoom[c]].drawingState.historyIndex

\* C26: in every state of a page, -1 <= historyIndex <= strokes.length - 1
\* holds for its canvas's own strokes and historyIndex.
C26_ClientBounds ==
  \A c \in Conns :
    /\ -1 <= client[c].canvasManager.historyIndex
    /\ client[c].canvasManager.historyIndex
         <= Len(client[c].canvasManager.strokes) - 1


\* ------------------------------------------------------------------------
\* Connections and the directory (checked under SpecServer)
\* ------------------------------------------------------------------------

\* The rooms of the directory that have socketId among their users.
RoomsOf(socketId) == { r \in DOMAIN rooms : socketId \in UserIds(rooms, r) }

\* C27: in every state a connection id is among the users of at most one room
\* of the directory.
C27_AtMostOneRoom == \A c \in Conns : Cardinality(RoomsOf(c)) <= 1

\* C28: whenever a connection that has not disconnected has a current room r,
\* the directory has a room r and the connection's id is among its users, so
\* that getRoom(currentRoom) in its draw, undo, redo and clear-canvas handlers
\* finds the room.
C28_CurrentRoomExists ==
  \A c \in Conns :
    client[c].phase # "left" /\ Truthy(currentRoom[c]) =>
      /\ currentRoom[c] \in DOMAIN rooms
      /\ c \in UserIds(rooms, currentRoom[c])

\* A connection has just disconnected from a room that holds a stroke and in
\* which another connection, still open, stays.
C28_Witness ==
  /\ handled.event.type = "disconnect"
  /\ \E c \in Conns \ {handled.conn} :
       /\ client[c].phase # "left"
       /\ Truthy(currentRoom[c])
       /\ currentRoom[c] = currentRoom[handled.conn]
       /\ currentRoom[c] \in DOMAIN rooms
       /\ rooms[currentRoom[c]].drawingState.strokes # <<>>


\* The users room r has after the step, by the event the step handles: those
\* it had, with the connection that joins r and without the connection that
\* disconnects while r is its current room.
UsersAfter(r) ==
  LET c     == handled'.conn
      type  == handled'.event.type
      had   == IF r \in DOMAIN rooms THEN UserIds(rooms, r) ELSE {}
      comes == IF type = "join-room" /\ handled'.event.roomName = r
                 THEN {c} ELSE {}
      goes  == IF type = "disconnect" /\ currentRoom[c] = r THEN {c} ELSE {}
  IN  (had \cup comes) \ goes

\* C29: after every event the server has handled (join-room, draw,
\* cursor-move, undo, redo, clear-canvas, disconnect) no room of the directory
\* has an empty users map, and a room is in the directory exactly when it has
\* at least one user.
C29_NoEmptyRoom ==
  /\ [](\A r \in DOMAIN rooms : rooms[r].users # <<>>)
  /\ [][ \A r \in RoomNames :
           /\ r \in DOMAIN rooms' <=> UsersAfter(r) # {}
           /\ r \in DOMAIN rooms' => UserIds(rooms', r) = UsersAfter(r) ]_vars

\* The only user of a room has disconnected and the room is gone, while the
\* other room stays with its user and its stroke.
C29_Witness ==
  /\ handled.event.type = "disconnect"
  /\ Truthy(currentRoom[handled.conn])
  /\ currentRoom[handled.conn] \notin DOMAIN rooms
  /\ \E r \in DOMAIN rooms : rooms[r].drawingState.strokes # <<>>


\* ========================================================================
\* The page's WebSocketManager on its own
\* ========================================================================

\* The connect() calls made at most, and the on() calls made at most.
MaxSockets == 2
MaxCallbacks == 2

\* The events a page registers callbacks for, two of the nine of main.js.
WsEvents == {"room-joined", "draw"}

\* The callbacks registered so far, over all events.
Registered(ws) ==
  UNION { Range(ws.callbacks[event]) : event \in DOMAIN ws.callbacks }

Managed ==
  UNCHANGED <<engineVars, rooms, currentRoom, sioRooms, inbox, outbox, client,
              commands, handled, late>>

\* wsManager.connect(), as DrawingApp.joinRoom calls it.
WsConnect ==
  /\ wsManager.socket < MaxSockets
  /\ wsManager' = connect(wsManager, wsManager.socket + 1)
  /\ invoked' = NoOccurrence
  /\ Managed

\* wsManager.on(event, callback); the page connects before it registers.
WsOn(event) ==
  /\ wsManager.socket # 0
  /\ Cardinality(Registered(wsManager)) < MaxCallbacks
  /\ wsManager' = on(wsManager, event, Cardinality(Registered(wsManager)) + 1)
  /\ invoked' = NoOccurrence
  /\ Managed

\* wsManager.disconnect(), as DrawingApp.leaveRoom calls it.
WsDisconnect ==
  /\ wsManager.socket \in wsManager.connected
  /\ wsManager' = disconnect(wsManager)
  /\ invoked' = NoOccurrence
  /\ Managed

\* An event sent by the server arrives on a connected socket of the manager.
WsOccur(s, event) ==
  /\ s \in wsManager.connected
  /\ invoked' = [socket |-> s, event |-> event,
                 calls |-> Dispatch(wsManager, s, event)]
  /\ UNCHANGED wsManager
  /\ Managed

SocketNext ==
  \/ WsConnect
  \/ \E event \in WsEvents : WsOn(event)
  \/ WsDisconnect
  \/ \E s \in 1..MaxSockets, event \in WsEvents : WsOccur(s, event)

SpecSocket == Init /\ [][SocketNext]_vars

\* How many times callback cb is in the sequence calls.
TimesInvoked(cb, calls) == Cardinality({ k \in 1..Len(calls) : calls[k] = cb })

\* C30: when an event has occurred on the manager's current socket, every
\* callback registered for that event with on() has been invoked exactly once
\* for it, whether it was registered before or after a disconnect() and a
\* further connect().  Stated for a manager that disconnected every socket
\* before it made the next one.
C30_EachCallbackOnce ==
  ( /\ invoked.event # ""
    /\ invoked.socket = wsManager.socket
    /\ wsManager.connected = {wsManager.socket}
    /\ invoked.event \in DOMAIN wsManager.callbacks )
  => \A cb \in Range(wsManager.callbacks[invoked.event]) :
       TimesInvoked(cb, invoked.calls) = 1

=============================================================================
